---- MODULE Spec2Model ----
(***************************************************************************)
(* State-machine model of TesseractOcrCliModel                             *)
(* (src/docling/models/tesseract_ocr_cli_model.py): construction with the  *)
(* two startup queries, and the page generator __call__ with its per-region*)
(* render / temporary file / script detection / recognition / cleanup      *)
(* steps.  Python's None is the empty sequence, a present value x is <<x>>.*)
(***************************************************************************)
EXTENDS Integers, Sequences, FiniteSets, TLC

None == <<>>
Some(x) == <<x>>

\* ------------------------------------------------------------------ bounds
\* pages of one run, regions of all pages of one run, repeated language
\* listings of one instance
MaxPages == 2
MaxRects == 2
MaxRepeats == 2

\* ------------------------------------------------------- program constants
scale == 3
tesseract_cmd == "tesseract"

\* ------------------------------------------------------------ input domains
\* (options.lang, options.path): lang is None, an empty list, an explicit
\* list or holds the auto sentinel; path is None or a tessdata directory.
OptionChoices ==
  { [lang |-> None, path |-> None],
    [lang |-> Some(<<>>), path |-> Some("/opt/tessdata")],
    [lang |-> Some(<<"deu", "eng">>), path |-> None],
    [lang |-> Some(<<"auto">>), path |-> None] }

ScriptCodes == {"Latin", "HanS"}

\* One stream of the version query: its lines, each split at single spaces.
VersionQueries ==
  { [launch |-> "fail", out |-> <<>>, err |-> <<>>],
    [launch |-> "ok", out |-> <<>>, err |-> <<>>],
    [launch |-> "ok", out |-> <<>>,
       err |-> << <<"tesseract", "5.3.0">>, <<"leptonica-1.82.0">> >>],
    [launch |-> "ok", out |-> << <<"tesseract", "5.3.0">> >>, err |-> <<>>],
    [launch |-> "ok", out |-> <<>>, err |-> << <<"tesseract">> >>],
    [launch |-> "ok", out |-> <<>>,
       err |-> << <<"tesseract", "5.3.0", "(beta)">> >>] }

\* The language listing: its lines (the first one is the header line).
ListQueries ==
  { [launch |-> "fail", lines |-> <<>>],
    [launch |-> "ok", lines |-> <<>>],
    [launch |-> "ok", lines |-> <<"List of available languages (2):", "eng", "osd">>],
    [launch |-> "ok",
       lines |-> <<"List of available languages (2):", "eng", "script/HanS">>] }

\* The script-detection report: colon separated key/value lines.
OsdQueries ==
  { [launch |-> "fail", lines |-> <<>>],
    [launch |-> "ok", lines |-> <<>>],
    [launch |-> "ok", lines |-> << [key |-> "Page number", value |-> " 0"] >>],
    [launch |-> "ok", lines |-> << [key |-> "Page number", value |-> " 0"],
                                   [key |-> "Script", value |-> " Latin"],
                                   [key |-> "Script confidence", value |-> " 1.2"] >>],
    [launch |-> "ok", lines |-> << [key |-> "Script", value |-> " Han"] >>] }

\* A row of the tabular report by its text field: "" is an empty field, "  "
\* is blank, "42" is a field pandas can read as a number.
ReportRow(t) ==
  IF t = "Hello"
    THEN [text |-> t, conf |-> 95, left |-> 10, top |-> 10, width |-> 100, height |-> 20]
  ELSE IF t = "42"
    THEN [text |-> t, conf |-> 87, left |-> 0, top |-> 0, width |-> 30, height |-> 10]
  ELSE [text |-> t, conf |-> -1, left |-> 0, top |-> 0, width |-> 600, height |-> 150]

Rows(ts) == [i \in 1..Len(ts) |-> ReportRow(ts[i])]

\* The text columns of the reports the engine gives: no row, rows without
\* text, numbers only, words, and mixtures of them.
ReportTexts ==
  { <<>>,
    <<"">>,
    <<"", "42">>,
    <<"  ">>,
    <<"Hello">>,
    <<"", "Hello">>,
    <<"", "Hello", "  ", "42", "Hello">> }

\* The recognition report: header |-> FALSE is an output with no line at all.
OcrQueries ==
  { [launch |-> "fail", header |-> FALSE, rows |-> <<>>],
    [launch |-> "ok", header |-> FALSE, rows |-> <<>>] }
  \cup { [launch |-> "ok", header |-> TRUE, rows |-> Rows(ts)] : ts \in ReportTexts }

SeqsUpTo(S, n) == UNION { [1..k -> S] : k \in 0..n }

\* Candidate regions in page-document coordinates (l, t, r, b).
RectSet ==
  { [l |-> 1, t |-> 1, r |-> 1, b |-> 5],
    [l |-> 100, t |-> 200, r |-> 160, b |-> 230] }

PdfCell == [id |-> 0, text |-> "pdf", origin |-> "pdf"]

\* The pages page_batch can deliver as its k-th page, with at most n regions.
PageSet(k, n) ==
  { [no |-> k, backend |-> "valid", rects |-> rs, cells |-> <<PdfCell>>] :
      rs \in SeqsUpTo(RectSet, n) }
  \cup { [no |-> k, backend |-> bk, rects |-> <<>>, cells |-> <<PdfCell>>] :
          bk \in {"invalid", "none"} }

RECURSIVE RectCount(_)
\* The number of regions of the pages taken so far.
RectCount(ps) == IF ps = <<>> THEN 0 ELSE Len(Head(ps).rects) + RectCount(Tail(ps))

\* ------------------------------------------------------------------- state
VARIABLES
  enabled, lang, path,            \* self.enabled, options.lang, options.path
  name, version,                  \* self._name, self._version
  tesseract_languages,            \* self._tesseract_languages
  script_prefix,                  \* self._script_prefix
  pc,                             \* position of the constructor / generator
  exc,                            \* the exception being raised, if any
  cause,                          \* the exception __init__ caught, if any
  launches,                       \* every engine process launched, in order
  files, nfiles,                  \* temporary files that exist; files created
  pulled, emitted,                \* pages taken from page_batch; pages yielded
  page,                           \* the page being processed
  ocr_rects, ri,                  \* the page's regions and the loop position
  all_ocr_cells,                  \* the cells accumulated for the page
  cell_src,                       \* for each of them, its region and report row
  fname,                          \* the local fname of the generator frame
  cmd,                            \* the recognition command being built
  df,                             \* the filtered report of the region
  detected,                       \* the region's script detection: report, result
  report,                         \* the tabular report read for the region
  rect_calls, render_calls, merge_calls, \* calls of the collaborators
  returned                        \* the last direct call of a startup method

fields == <<name, version, tesseract_languages, script_prefix>>
options == <<enabled, lang, path>>
pagevars == <<page, ocr_rects, ri, all_ocr_cells, cell_src, fname, cmd, df>>
observed == <<detected, report>>
logs == <<launches, rect_calls, render_calls, merge_calls>>
io == <<files, nfiles>>
vars == <<options, fields, pc, exc, cause, logs, io, pulled, emitted, pagevars, observed,
          returned>>

Init ==
  /\ enabled \in BOOLEAN
  /\ \E o \in OptionChoices : lang = o.lang /\ path = o.path
  /\ name = None /\ version = None
  /\ tesseract_languages = None /\ script_prefix = None
  /\ pc = "new" /\ exc = None /\ cause = None
  /\ launches = <<>> /\ files = {} /\ nfiles = 0
  /\ pulled = <<>> /\ emitted = <<>>
  /\ page = None /\ ocr_rects = <<>> /\ ri = 1
  /\ all_ocr_cells = <<>> /\ cell_src = <<>>
  /\ fname = None /\ cmd = <<>> /\ df = <<>>
  /\ detected = None /\ report = None
  /\ rect_calls = <<>> /\ render_calls = <<>> /\ merge_calls = <<>>
  /\ returned = None

\* An engine process: its kind, its command line, and the page and region it
\* is launched for (0, 0 for the startup queries).
Launch(kind, c, pg, r) == [kind |-> kind, cmd |-> c, page |-> pg, rect |-> r]

\* --------------------------------------------------- _get_name_and_version
\* (stdout.strip() or stderr.strip()).split("\n")[0].strip().split(" ")
VersionLine(q) ==
  LET text == IF q.out # <<>> THEN q.out ELSE q.err
  IN  IF text = <<>> THEN <<"tesseract", "XXX">> ELSE text[1]

\* The result of one call: the launches it makes, whether it raises, and the
\* name and version it leaves in the instance.
GetNameAndVersion(n, v, q) ==
  IF n # None /\ v # None
    THEN [launched |-> <<>>, raised |-> None, name |-> n, version |-> v]
  ELSE LET l == <<Launch("version", <<tesseract_cmd, "--version">>, 0, 0)>>
       IN  IF q.launch = "fail"
             THEN [launched |-> l, raised |-> Some("OSError"), name |-> n, version |-> v]
           ELSE IF Len(VersionLine(q)) # 2
             THEN [launched |-> l, raised |-> Some("ValueError"), name |-> n, version |-> v]
           ELSE [launched |-> l, raised |-> None,
                 name |-> Some(VersionLine(q)[1]), version |-> Some(VersionLine(q)[2])]

\* ------------------------------------------------ _set_languages_and_prefix
StartsWithScript(l) == \E c \in ScriptCodes : l = "script/" \o c

SetLanguagesAndPrefix(tl, sp, q) ==
  LET l == <<Launch("list", <<tesseract_cmd, "--list-langs">>, 0, 0)>>
  IN  IF q.launch = "fail"
        THEN [launched |-> l, raised |-> Some("OSError"), langs |-> tl, prefix |-> sp]
      ELSE IF q.lines = <<>>
        THEN [launched |-> l, raised |-> Some("EmptyDataError"), langs |-> tl, prefix |-> sp]
      ELSE LET ls == Tail(q.lines)
           IN  [launched |-> l, raised |-> None, langs |-> Some(ls),
                prefix |-> IF \E i \in 1..Len(ls) : StartsWithScript(ls[i])
                             THEN Some("script/") ELSE Some("")]

\* ------------------------------------------------------------------ __init__
ConstructWhen(on) ==
  /\ pc = "new"
  /\ IF ~on
       THEN /\ pc' = "idle"
            /\ UNCHANGED <<fields, exc, cause, launches>>
       ELSE \E vq \in VersionQueries, lq \in ListQueries :
              LET r1 == GetNameAndVersion(name, version, vq)
                  r2 == SetLanguagesAndPrefix(tesseract_languages, script_prefix, lq)
              IN  IF r1.raised # None
                    THEN /\ pc' = "failed"
                         /\ cause' = Some([query |-> "version", error |-> r1.raised[1]])
                         /\ exc' = Some("RuntimeError")
                         /\ launches' = launches \o r1.launched
                         /\ UNCHANGED fields
                  ELSE /\ name' = r1.name /\ version' = r1.version
                       /\ launches' = launches \o r1.launched \o r2.launched
                       /\ tesseract_languages' = r2.langs
                       /\ script_prefix' = r2.prefix
                       /\ pc' = IF r2.raised # None THEN "failed" ELSE "idle"
                       /\ cause' = IF r2.raised # None
                                     THEN Some([query |-> "list", error |-> r2.raised[1]])
                                     ELSE None
                       /\ exc' = IF r2.raised # None THEN Some("RuntimeError") ELSE None
  /\ UNCHANGED <<options, returned, rect_calls, render_calls, merge_calls, io, pulled,
                 emitted, pagevars, observed>>

\* A constructor that runs the startup queries whatever self.enabled is.
ConstructAlways == ConstructWhen(TRUE)

\* A constructor that still lists the languages after the version query raised.
ConstructListsAnyway ==
  /\ pc = "new" /\ enabled
  /\ \E vq \in VersionQueries, lq \in ListQueries :
       LET r1 == GetNameAndVersion(name, version, vq)
           r2 == SetLanguagesAndPrefix(tesseract_languages, script_prefix, lq)
           bad == r1.raised # None \/ r2.raised # None
       IN  /\ launches' = launches \o r1.launched \o r2.launched
           /\ name' = r1.name /\ version' = r1.version
           /\ tesseract_languages' = r2.langs
           /\ script_prefix' = r2.prefix
           /\ pc' = IF bad THEN "failed" ELSE "idle"
           /\ exc' = IF bad THEN Some("RuntimeError") ELSE None
           /\ cause' = IF r1.raised # None
                         THEN Some([query |-> "version", error |-> r1.raised[1]])
                       ELSE IF r2.raised # None
                         THEN Some([query |-> "list", error |-> r2.raised[1]])
                       ELSE None
  /\ UNCHANGED <<options, returned, rect_calls, render_calls, merge_calls, io, pulled,
                 emitted, pagevars, observed>>

Construct == ConstructWhen(enabled)

\* ------------------------------------------------------------- __call__
\* Disabled component: yield from page_batch.
PassThrough ==
  /\ pc = "idle" /\ ~enabled
  /\ Len(pulled) < MaxPages
  /\ \E p \in PageSet(Len(pulled) + 1, MaxRects - RectCount(pulled)) :
       /\ pulled' = Append(pulled, p)
       /\ page' = Some(p)
  /\ pc' = "yield"
  /\ UNCHANGED <<options, returned, fields, exc, cause, logs, io, emitted,
                 ocr_rects, ri, all_ocr_cells, cell_src, fname, cmd, df, observed>>

\* get_ocr_rects of the region provider
get_ocr_rects(p) == p.rects

\* A loop that does not test is_valid(): every page with a backend goes
\* through the region provider and the region loop.
PullPageIgnoresValidity ==
  /\ pc = "idle" /\ enabled
  /\ Len(pulled) < MaxPages
  /\ \E p \in PageSet(Len(pulled) + 1, MaxRects - RectCount(pulled)) :
       /\ pulled' = Append(pulled, p)
       /\ page' = Some(p)
       /\ IF p.backend = "none"
            THEN /\ pc' = "raised" /\ exc' = Some("AssertionError")
                 /\ UNCHANGED <<ocr_rects, ri, all_ocr_cells, cell_src, rect_calls>>
          ELSE /\ pc' = "loop"
               /\ rect_calls' = Append(rect_calls, p.no)
               /\ ocr_rects' = get_ocr_rects(p)
               /\ ri' = 1
               /\ all_ocr_cells' = <<>>
               /\ cell_src' = <<>>
               /\ UNCHANGED exc
  /\ UNCHANGED <<options, returned, fields, cause, launches, render_calls, merge_calls, io,
                 emitted, fname, cmd, df, observed>>

\* Enabled component: the for loop takes the next page of page_batch.
PullPage ==
  /\ pc = "idle" /\ enabled
  /\ Len(pulled) < MaxPages
  /\ \E p \in PageSet(Len(pulled) + 1, MaxRects - RectCount(pulled)) :
       /\ pulled' = Append(pulled, p)
       /\ page' = Some(p)
       /\ IF p.backend = "none"
            THEN /\ pc' = "raised" /\ exc' = Some("AssertionError")
                 /\ UNCHANGED <<ocr_rects, ri, all_ocr_cells, cell_src, rect_calls>>
          ELSE IF p.backend = "invalid"
            THEN /\ pc' = "yield"
                 /\ UNCHANGED <<exc, ocr_rects, ri, all_ocr_cells, cell_src, rect_calls>>
          ELSE /\ pc' = "loop"
               /\ rect_calls' = Append(rect_calls, p.no)
               /\ ocr_rects' = get_ocr_rects(p)
               /\ ri' = 1
               /\ all_ocr_cells' = <<>>
               /\ cell_src' = <<>>
               /\ UNCHANGED exc
  /\ UNCHANGED <<options, returned, fields, cause, launches, render_calls, merge_calls, io,
                 emitted, fname, cmd, df, observed>>

\* page_batch is exhausted: the generator returns.
EndOfInput ==
  /\ pc = "idle"
  /\ pc' = "done"
  /\ UNCHANGED <<options, returned, fields, exc, cause, logs, io, pulled, emitted, pagevars, observed>>

\* yield page
YieldPage ==
  /\ pc = "yield"
  /\ emitted' = Append(emitted, page[1])
  /\ pc' = "idle"
  /\ UNCHANGED <<options, returned, fields, exc, cause, logs, io, pulled, pagevars, observed>>

Area(rect) == (rect.r - rect.l) * (rect.b - rect.t)

\* A loop that skips no region.
IsSkippedNever(rect) == FALSE

\* if ocr_rect.area() == 0: continue
IsSkipped(rect) == Area(rect) = 0

SkipZeroArea ==
  /\ pc = "loop" /\ ri <= Len(ocr_rects)
  /\ IsSkipped(ocr_rects[ri])
  /\ ri' = ri + 1
  /\ detected' = None /\ report' = None
  /\ UNCHANGED <<options, returned, fields, pc, exc, cause, logs, io, pulled, emitted,
                 page, ocr_rects, all_ocr_cells, cell_src, fname, cmd, df>>

\* page._backend.get_page_image(scale=self.scale, cropbox=ocr_rect)
Render ==
  /\ pc = "loop" /\ ri <= Len(ocr_rects)
  /\ ~IsSkipped(ocr_rects[ri])
  /\ render_calls' = Append(render_calls, [page |-> page[1].no, rect |-> ri])
  /\ \E ok \in BOOLEAN :
       /\ pc' = IF ok THEN "try" ELSE "raised"
       /\ exc' = IF ok THEN None ELSE Some("RenderError")
  /\ detected' = None /\ report' = None
  /\ UNCHANGED <<options, returned, fields, cause, launches, rect_calls, merge_calls, io,
                 pulled, emitted, pagevars>>

FileName(k) == "/tmp/tmp" \o ToString(k) \o ".png"

\* with tempfile.NamedTemporaryFile(suffix=".png", mode="w+b", delete=False)
CreateTemp ==
  /\ pc = "try"
  /\ \E ok \in BOOLEAN :
       IF ok
         THEN /\ nfiles' = nfiles + 1
              /\ fname' = Some(FileName(nfiles + 1))
              /\ files' = files \cup {FileName(nfiles + 1)}
              /\ pc' = "save"
              /\ UNCHANGED exc
         ELSE /\ exc' = Some("OSError")
              /\ pc' = "finally"
              /\ UNCHANGED <<io, fname>>
  /\ UNCHANGED <<options, returned, fields, cause, logs, pulled, emitted,
                 page, ocr_rects, ri, all_ocr_cells, cell_src, cmd, df, observed>>

\* high_res_image.save(image_file), then the with block closes the file
SaveImage ==
  /\ pc = "save"
  /\ \E ok \in BOOLEAN :
       /\ pc' = IF ok THEN "run" ELSE "finally"
       /\ exc' = IF ok THEN None ELSE Some("OSError")
  /\ UNCHANGED <<options, returned, fields, cause, logs, io, pulled, emitted, pagevars, observed>>

\* ---------------------------------------------------------- _detect_language
\* str.strip() on the fields the engine reports
Strip(s) ==
  CASE s = " Latin" -> "Latin"
    [] s = " Han" -> "Han"
    [] s = " 0" -> "0"
    [] s = " 1.2" -> "1.2"
    [] s = "  " -> ""
    [] OTHER -> s

\* docling.utils.ocr_utils.map_tesseract_script
map_tesseract_script(script) ==
  CASE script = "Katakana" -> "Japanese"
    [] script = "Hiragana" -> "Japanese"
    [] script = "Han" -> "HanS"
    [] script = "Korean" -> "Hangul"
    [] OTHER -> script

InList(x, l) == \E i \in 1..Len(l) : l[i] = x

IsScriptLine(ln) == ln.key = "Script"

\* A detection that returns the tag without looking it up in the installed
\* languages.
DetectLanguageUnchecked(tl, sp, q, ifilename, pg, r) ==
  LET l == <<Launch("osd",
               <<tesseract_cmd, "--psm", "0", "-l", "osd", ifilename, "stdout">>, pg, r)>>
      scripts == SelectSeq(q.lines, IsScriptLine)
  IN  IF q.launch = "fail"
        THEN [launched |-> l, raised |-> Some("OSError"), lang |-> None]
      ELSE IF Len(scripts) = 0
        THEN [launched |-> l, raised |-> None, lang |-> None]
      ELSE [launched |-> l, raised |-> None,
            lang |-> Some(sp[1] \o map_tesseract_script(Strip(scripts[1].value)))]

\* A detection that lists the installed languages again before it runs.
DetectLanguageRelists(tl, sp, q, ifilename, pg, r) ==
  LET l == <<Launch("list", <<tesseract_cmd, "--list-langs">>, 0, 0),
             Launch("osd",
               <<tesseract_cmd, "--psm", "0", "-l", "osd", ifilename, "stdout">>, pg, r)>>
      scripts == SelectSeq(q.lines, IsScriptLine)
  IN  IF q.launch = "fail"
        THEN [launched |-> l, raised |-> Some("OSError"), lang |-> None]
      ELSE IF Len(scripts) = 0
        THEN [launched |-> l, raised |-> None, lang |-> None]
      ELSE LET tag == sp[1] \o map_tesseract_script(Strip(scripts[1].value))
           IN  IF ~InList(tag, tl[1])
                 THEN [launched |-> l, raised |-> None, lang |-> None]
               ELSE [launched |-> l, raised |-> None, lang |-> Some(tag)]

\* A detection that reads its report the way the tabular report is read:
\* an output with no line raises.
DetectLanguageStrictRead(tl, sp, q, ifilename, pg, r) ==
  LET l == <<Launch("osd",
               <<tesseract_cmd, "--psm", "0", "-l", "osd", ifilename, "stdout">>, pg, r)>>
      scripts == SelectSeq(q.lines, IsScriptLine)
  IN  IF q.launch = "fail"
        THEN [launched |-> l, raised |-> Some("OSError"), lang |-> None]
      ELSE IF q.lines = <<>>
        THEN [launched |-> l, raised |-> Some("EmptyDataError"), lang |-> None]
      ELSE IF Len(scripts) = 0
        THEN [launched |-> l, raised |-> None, lang |-> None]
      ELSE LET tag == sp[1] \o map_tesseract_script(Strip(scripts[1].value))
           IN  IF ~InList(tag, tl[1])
                 THEN [launched |-> l, raised |-> None, lang |-> None]
               ELSE [launched |-> l, raised |-> None, lang |-> Some(tag)]

\* The result of one call: the launch it makes, whether it raises, and the
\* language it returns (None or a tag).
DetectLanguage(tl, sp, q, ifilename, pg, r) ==
  LET l == <<Launch("osd",
               <<tesseract_cmd, "--psm", "0", "-l", "osd", ifilename, "stdout">>, pg, r)>>
      scripts == SelectSeq(q.lines, IsScriptLine)
  IN  IF tl = None
        THEN [launched |-> <<>>, raised |-> Some("AssertionError"), lang |-> None]
      ELSE IF q.launch = "fail"
        THEN [launched |-> l, raised |-> Some("OSError"), lang |-> None]
      ELSE IF Len(scripts) = 0
        THEN [launched |-> l, raised |-> None, lang |-> None]
      ELSE LET script == map_tesseract_script(Strip(scripts[1].value))
               tag == sp[1] \o script
           IN  IF ~InList(tag, tl[1])
                 THEN [launched |-> l, raised |-> None, lang |-> None]
               ELSE [launched |-> l, raised |-> None, lang |-> Some(tag)]

\* ------------------------------------------------------------ _run_tesseract
RECURSIVE Join(_)
\* "+".join(tags)
Join(tags) ==
  IF Len(tags) = 0 THEN ""
  ELSE IF Len(tags) = 1 THEN tags[1]
  ELSE tags[1] \o "+" \o Join(Tail(tags))

\* "auto" in self.options.lang
IsAuto(l) == InList("auto", l[1])

\* cmd.append("-l"); cmd.append(lang) when detection returned a tag
DetectedArgs(d) == IF d # None THEN <<"-l", d[1]>> ELSE <<>>

\* elif self.options.lang is not None and len(self.options.lang) > 0
ExplicitArgs(l) ==
  IF l # None /\ Len(l[1]) > 0 THEN <<"-l", Join(l[1])>> ELSE <<>>

\* if self.options.path is not None
PathArgs(p) == IF p # None THEN <<"--tessdata-dir", p[1]>> ELSE <<>>

\* Lines 83-92: the language part of the command, with script detection in
\* auto mode.
SelectLanguage ==
  /\ pc = "run"
  /\ IF lang = None
       THEN /\ exc' = Some("TypeError")
            /\ pc' = "finally"
            /\ UNCHANGED <<launches, detected, cmd>>
     ELSE IF IsAuto(lang)
       THEN \E q \in OsdQueries :
              LET d == DetectLanguage(tesseract_languages, script_prefix, q,
                                      fname[1], page[1].no, ri)
              IN  /\ launches' = launches \o d.launched
                  /\ detected' = IF q.launch = "fail" THEN None
                                   ELSE Some([page |-> page[1].no, rect |-> ri,
                                              lines |-> q.lines, lang |-> d.lang])
                  /\ exc' = d.raised
                  /\ pc' = IF d.raised # None THEN "finally" ELSE "ocr"
                  /\ cmd' = <<tesseract_cmd>> \o DetectedArgs(d.lang)
     ELSE /\ cmd' = <<tesseract_cmd>> \o ExplicitArgs(lang)
          /\ pc' = "ocr"
          /\ UNCHANGED <<launches, detected, exc>>
  /\ UNCHANGED <<options, returned, fields, cause, rect_calls, render_calls, merge_calls, io,
                 pulled, emitted, page, ocr_rects, ri, all_ocr_cells, cell_src, fname, df,
                 report>>

\* pandas.read_csv: an empty field is NaN; a column whose fields are all
\* numbers or empty gets a numeric dtype, any other column holds strings.
IsNaN(t) == t = ""
IsNumberField(t) == t = "42"

TextColumnIsNumeric(rows) ==
  /\ Len(rows) > 0
  /\ \A i \in 1..Len(rows) : IsNaN(rows[i].text) \/ IsNumberField(rows[i].text)

\* The rows of the frame with their index labels 0, 1, ...
Indexed(rows) == [i \in 1..Len(rows) |-> [ix |-> i - 1, row |-> rows[i]]]

\* df["text"].notnull() & (df["text"].str.strip() != "")
HasText(e) == ~IsNaN(e.row.text) /\ Strip(e.row.text) # ""

\* A filter that numbers the rows it keeps from 0 again.
FilterRowsReindexed(rows) ==
  LET kept == SelectSeq(Indexed(rows), HasText)
  IN  [i \in 1..Len(kept) |-> [ix |-> i - 1, row |-> kept[i].row]]

FilterRows(rows) == SelectSeq(Indexed(rows), HasText)

\* The result of reading and filtering the report: raised or the frame.
ParseReport(q) ==
  IF ~q.header THEN [raised |-> Some("EmptyDataError"), df |-> <<>>]
  ELSE IF TextColumnIsNumeric(q.rows)
    THEN [raised |-> Some("AttributeError"), df |-> <<>>]
  ELSE [raised |-> None, df |-> FilterRows(q.rows)]

\* Lines 94-119: the rest of the command, the recognition launch and the parse.
Recognize ==
  /\ pc = "ocr"
  /\ \E q \in OcrQueries :
       LET c == cmd \o PathArgs(path) \o <<fname[1], "stdout", "tsv">>
           r == ParseReport(q)
       IN  /\ cmd' = c
           /\ launches' = Append(launches, Launch("ocr", c, page[1].no, ri))
           /\ IF q.launch = "fail"
                THEN exc' = Some("OSError") /\ UNCHANGED <<df, report>>
                ELSE /\ exc' = r.raised
                     /\ df' = IF r.raised = None THEN r.df ELSE df
                     /\ report' = IF q.header
                                    THEN Some([page |-> page[1].no, rect |-> ri, rows |-> q.rows])
                                    ELSE report
           /\ pc' = "finally"
  /\ UNCHANGED <<options, returned, fields, cause, detected, rect_calls, render_calls, merge_calls,
                 io, pulled, emitted, page, ocr_rects, ri, all_ocr_cells, cell_src, fname>>

\* A cleanup that runs only after a recognition that returned.
FinallyOnSuccessOnly ==
  /\ pc = "finally"
  /\ IF exc # None
       THEN pc' = "raised" /\ UNCHANGED files
       ELSE files' = files \ {fname[1]} /\ pc' = "cells"
  /\ UNCHANGED <<options, returned, fields, exc, cause, logs, nfiles, pulled, emitted, pagevars,
                 observed>>

\* A cleanup after which the loop goes on whatever the try block raised.
FinallyResumes ==
  /\ pc = "finally"
  /\ IF fname = None
       THEN /\ exc' = Some("UnboundLocalError")
            /\ pc' = "raised"
            /\ UNCHANGED files
       ELSE /\ files' = files \ {fname[1]}
            /\ pc' = "cells"
            /\ UNCHANGED exc
  /\ UNCHANGED <<options, returned, fields, cause, logs, nfiles, pulled, emitted, pagevars, observed>>

\* finally: if os.path.exists(fname): os.remove(fname)
Finally ==
  /\ pc = "finally"
  /\ IF fname = None
       THEN /\ exc' = Some("UnboundLocalError")
            /\ pc' = "raised"
            /\ UNCHANGED files
       ELSE /\ files' = files \ {fname[1]}
            /\ pc' = IF exc # None THEN "raised" ELSE "cells"
            /\ UNCHANGED exc
  /\ UNCHANGED <<options, returned, fields, cause, logs, nfiles, pulled, emitted, pagevars, observed>>

\* ------------------------------------------------------------ cell building
\* x / s + o as a fraction with denominator s
DivAdd(x, s, o) == [n |-> x + o * s, d |-> s]

RLess(a, b) == a.n * b.d < b.n * a.d

\* BoundingBox.from_tuple(coord=(l, t, r, b), origin=CoordOrigin.TOPLEFT)
FromTuple(c) ==
  [l |-> IF RLess(c[3], c[1]) THEN c[3] ELSE c[1],
   t |-> IF RLess(c[4], c[2]) THEN c[4] ELSE c[2],
   r |-> IF RLess(c[3], c[1]) THEN c[1] ELSE c[3],
   b |-> IF RLess(c[4], c[2]) THEN c[2] ELSE c[4],
   coord_origin |-> "TOPLEFT"]

\* A cell that keeps the engine's coordinates scaled down but not moved to
\* the region's origin.
MakeCellNoOffset(e, rect) ==
  LET l == e.row.left
      b == e.row.top
      t == b + e.row.height
      r == l + e.row.width
  IN  [id |-> e.ix,
       text |-> e.row.text,
       confidence |-> [n |-> e.row.conf, d |-> 100],
       bbox |-> FromTuple(<<DivAdd(l, scale, 0), DivAdd(b, scale, 0),
                            DivAdd(r, scale, 0), DivAdd(t, scale, 0)>>)]

\* Lines 218-242: the cell of one row of the filtered frame.
MakeCell(e, rect) ==
  LET l == e.row.left
      b == e.row.top
      w == e.row.width
      h == e.row.height
      t == b + h
      r == l + w
  IN  [id |-> e.ix,
       text |-> e.row.text,
       confidence |-> [n |-> e.row.conf, d |-> 100],
       bbox |-> FromTuple(<<DivAdd(l, scale, rect.l), DivAdd(b, scale, rect.t),
                            DivAdd(r, scale, rect.l), DivAdd(t, scale, rect.t)>>)]

\* for ix, row in df.iterrows(): ... all_ocr_cells.append(cell)
BuildCells ==
  /\ pc = "cells"
  /\ all_ocr_cells' = all_ocr_cells \o [i \in 1..Len(df) |-> MakeCell(df[i], ocr_rects[ri])]
  /\ cell_src' = cell_src \o [i \in 1..Len(df) |-> [rect |-> ri, row |-> df[i].row]]
  /\ ri' = ri + 1
  /\ pc' = "loop"
  /\ UNCHANGED <<options, returned, fields, exc, cause, logs, io, pulled, emitted,
                 page, ocr_rects, fname, cmd, df, observed>>

\* post_process_cells of the base class: the merge collaborator
post_process_cells(ocr_cells, programmatic_cells) == programmatic_cells \o ocr_cells

\* page.cells = self.post_process_cells(all_ocr_cells, page.cells)
PostProcess ==
  /\ pc = "loop" /\ ri > Len(ocr_rects)
  /\ merge_calls' = Append(merge_calls,
        [page |-> page[1].no, new |-> all_ocr_cells, old |-> page[1].cells])
  /\ page' = Some([page[1] EXCEPT !.cells = post_process_cells(all_ocr_cells, page[1].cells)])
  /\ pc' = "yield"
  /\ detected' = None /\ report' = None
  /\ UNCHANGED <<options, returned, fields, exc, cause, launches, rect_calls, render_calls,
                 io, pulled, emitted, ocr_rects, ri, all_ocr_cells, cell_src, fname, cmd,
                 df>>

Next ==
  \/ Construct
  \/ PassThrough
  \/ PullPage
  \/ EndOfInput
  \/ YieldPage
  \/ SkipZeroArea
  \/ Render
  \/ CreateTemp
  \/ SaveImage
  \/ SelectLanguage
  \/ Recognize
  \/ Finally
  \/ BuildCells
  \/ PostProcess

Spec == Init /\ [][Next]_vars

\* ------------------------------------- direct calls of the startup methods
\* The caller of an enabled, constructed instance calls
\* _get_name_and_version() again while the generator is not running.
RepeatGetNameAndVersion ==
  /\ pc = "idle" /\ enabled
  /\ \E q \in VersionQueries :
       LET r == GetNameAndVersion(name, version, q)
       IN  /\ launches' = launches \o r.launched
           /\ name' = r.name /\ version' = r.version
           /\ returned' = Some([call |-> "_get_name_and_version",
                                before |-> fields,
                                launched |-> r.launched,
                                raised |-> r.raised,
                                value |-> IF r.raised = None
                                            THEN Some(<<r.name[1], r.version[1]>>)
                                            ELSE None])
  /\ UNCHANGED <<options, tesseract_languages, script_prefix, pc, exc, cause,
                 rect_calls, render_calls, merge_calls, io, pulled, emitted, pagevars,
                 observed>>

ListLaunches == Len(SelectSeq(launches, LAMBDA l : l.kind = "list"))

\* The caller calls _set_languages_and_prefix() again; the method returns
\* nothing.
RepeatSetLanguagesAndPrefix ==
  /\ pc = "idle" /\ enabled
  /\ ListLaunches <= MaxRepeats
  /\ \E q \in ListQueries :
       LET r == SetLanguagesAndPrefix(tesseract_languages, script_prefix, q)
       IN  /\ launches' = launches \o r.launched
           /\ tesseract_languages' = r.langs
           /\ script_prefix' = r.prefix
           /\ returned' = Some([call |-> "_set_languages_and_prefix",
                                before |-> fields,
                                launched |-> r.launched,
                                raised |-> r.raised,
                                value |-> None])
  /\ UNCHANGED <<options, name, version, pc, exc, cause,
                 rect_calls, render_calls, merge_calls, io, pulled, emitted, pagevars,
                 observed>>

NextRepeat ==
  \/ Next
  \/ RepeatGetNameAndVersion
  \/ RepeatSetLanguagesAndPrefix

\* The runs in which the caller also calls the startup methods directly.
SpecRepeat == Init /\ [][NextRepeat]_vars

\* The runs of a component whose options.lang is a list.
InitListed == Init /\ lang # None

SpecListed == InitListed /\ [][Next]_vars

\* ====================================================================
\* Properties
\* ====================================================================
Last(sq) == sq[Len(sq)]

IsPrefix(a, b) == Len(a) <= Len(b) /\ a = SubSeq(b, 1, Len(a))

\* The region a collaborator call or an engine launch was made for.
RegionOf(e) == pulled[e.page].rects[e.rect]

Constructed == pc \notin {"new", "failed"}

AutoMode == lang # None /\ InList("auto", lang[1])

\* C1: a zero-area region is never rendered, gets no temporary file, no
\* engine launch and no cell, and the regions after it are still processed.
C1_ZeroAreaRegionsSkipped ==
  /\ \A i \in 1..Len(render_calls) : Area(RegionOf(render_calls[i])) # 0
  /\ \A i \in 1..Len(launches) :
       launches[i].page > 0 => Area(RegionOf(launches[i])) # 0
  /\ \A i \in 1..Len(cell_src) : Area(ocr_rects[cell_src[i].rect]) # 0
  /\ nfiles <= Len(render_calls)
  /\ (pc \in {"try", "save", "run", "ocr", "finally", "cells"}
        => ri <= Len(ocr_rects) /\ Area(ocr_rects[ri]) # 0)
  /\ (files # {} => pc \in {"save", "run", "ocr", "finally"})
  /\ (enabled /\ pc \in {"loop", "yield"} /\ page # None /\ page[1].backend = "valid"
        => \A j \in 1..Len(ocr_rects) :
             (j < ri /\ Area(ocr_rects[j]) # 0)
               => \E k \in 1..Len(render_calls) :
                    render_calls[k] = [page |-> page[1].no, rect |-> j])

\* A page whose first region has zero area and whose second region gave cells.
C1_Witness ==
  /\ enabled /\ pc = "yield" /\ page[1].backend = "valid"
  /\ Len(ocr_rects) = 2
  /\ Area(ocr_rects[1]) = 0 /\ Area(ocr_rects[2]) # 0
  /\ Len(all_ocr_cells) > 0

\* C2: a disabled component launches no engine process, calls neither the
\* region provider nor the merge collaborator, and emits exactly the input
\* pages, in order, unchanged.
C2_DisabledPassThrough ==
  ~enabled =>
    /\ launches = <<>> /\ rect_calls = <<>> /\ merge_calls = <<>>
    /\ render_calls = <<>> /\ nfiles = 0
    /\ pc \notin {"failed", "raised"}
    /\ IsPrefix(emitted, pulled)
    /\ Len(pulled) - Len(emitted) <= 1
    /\ (pc \in {"idle", "done"} => emitted = pulled)

C2_Witness == ~enabled /\ pc = "done" /\ Len(emitted) = 2 /\ emitted = pulled

\* C3: the temporary file of a region is gone once the region's recognition
\* step has ended, by return or by exception; at most one file exists at
\* any time, and none when a page is emitted or the generator ends.
C3_TemporaryFileRemoved ==
  /\ Cardinality(files) <= 1
  /\ (pc \notin {"save", "run", "ocr", "finally"} => files = {})

\* A recognition step that raised after its file was created.
C3_Witness == pc = "raised" /\ nfiles > 0 /\ exc # None /\ report # None

\* C4: in auto mode a detected tag is returned only when it is installed;
\* a tag that is not installed gives none and a recognition command without
\* -l; every -l argument of an auto-mode recognition is an installed tag.
C4_DetectedTagInstalled ==
  (AutoMode /\ Constructed) =>
    /\ \A i \in 1..Len(launches) :
         (launches[i].kind = "ocr" /\ InList("-l", launches[i].cmd))
           => /\ launches[i].cmd[2] = "-l"
              /\ InList(launches[i].cmd[3], tesseract_languages[1])
    /\ detected # None =>
         LET d == detected[1]
             scripts == SelectSeq(d.lines, IsScriptLine)
             tag == script_prefix[1] \o map_tesseract_script(Strip(scripts[1].value))
             rec == Last(launches)
         IN  /\ d.lang # None
                  => /\ Len(scripts) > 0
                     /\ d.lang[1] = tag
                     /\ InList(tag, tesseract_languages[1])
             /\ (Len(scripts) > 0 /\ ~InList(tag, tesseract_languages[1]))
                  => d.lang = None
             /\ (rec.kind = "ocr" /\ rec.page = d.page /\ rec.rect = d.rect)
                  => (InList("-l", rec.cmd) <=> d.lang # None)

\* A detected script whose tag is not installed, followed by the recognition.
C4_Witness ==
  /\ AutoMode /\ detected # None
  /\ \E i \in 1..Len(detected[1].lines) : IsScriptLine(detected[1].lines[i])
  /\ detected[1].lang = None
  /\ Last(launches).kind = "ocr"
  /\ Last(launches).rect = detected[1].rect

\* The rows of a report the claim counts: text present and not blank.
IsUsableRow(row) == row.text # "" /\ Strip(row.text) # ""

\* The cells accumulated for region r of the current page, in order.
CellsOfRegion(r) ==
  LET zip == [i \in 1..Len(all_ocr_cells) |-> [cell |-> all_ocr_cells[i], src |-> cell_src[i]]]
  IN  SelectSeq(zip, LAMBDA z : z.src.rect = r)

\* C5: once the step of a region whose tabular report was read has ended,
\* the region's cells are, one for one and in order, the report rows whose
\* text is present and not blank.
C5_CellsMatchUsableRows ==
  (report # None /\ pc \in {"loop", "raised"}) =>
    LET usable == SelectSeq(report[1].rows, IsUsableRow)
        cells == CellsOfRegion(report[1].rect)
    IN  /\ Len(cells) = Len(usable)
        /\ \A i \in 1..Len(cells) :
             /\ cells[i].cell.text = usable[i].text
             /\ Strip(cells[i].cell.text) # ""

\* s * (q - o) = v for the fraction q
ScaledBack(q, o, v) == scale * (q.n - o * q.d) = v * q.d

FracIs(q, v) == q.n = v * q.d

\* C6: every cell's box is the row's box, divided by the scale and moved
\* to the region's origin, with top from the row's top and bottom from top
\* plus height; it is never the engine's own box.
C6_BoxInPageSpace ==
  \A i \in 1..Len(all_ocr_cells) :
    LET box == all_ocr_cells[i].bbox
        row == cell_src[i].row
        rect == ocr_rects[cell_src[i].rect]
    IN  /\ box.coord_origin = "TOPLEFT"
        /\ ScaledBack(box.l, rect.l, row.left)
        /\ ScaledBack(box.t, rect.t, row.top)
        /\ ScaledBack(box.r, rect.l, row.left + row.width)
        /\ ScaledBack(box.b, rect.t, row.top + row.height)
        /\ ~(/\ FracIs(box.l, row.left)
             /\ FracIs(box.t, row.top)
             /\ FracIs(box.r, row.left + row.width)
             /\ FracIs(box.b, row.top + row.height))

\* A cell of a region away from the page origin, from a row away from the
\* image origin.
C6_Witness ==
  \E i \in 1..Len(all_ocr_cells) :
    /\ cell_src[i].row.left > 0 /\ cell_src[i].row.top > 0
    /\ ocr_rects[cell_src[i].rect].l > 0

\* Failures of the environment: an engine that cannot be launched or that
\* gives no output at all, a rendering or file error, a page without backend.
EnvironmentFailed ==
  exc \in {Some("OSError"), Some("EmptyDataError"), Some("RenderError"),
           Some("UnboundLocalError"), Some("AssertionError")}

\* C7: with no failing engine call an enabled component emits every input
\* page once, in order, pulls a page only after the one before it was
\* emitted, and ends with as many pages emitted as taken.
C7_EveryPageEmittedInOrder ==
  (enabled /\ Constructed /\ ~EnvironmentFailed) =>
    /\ pc # "raised"
    /\ Len(emitted) <= Len(pulled)
    /\ \A i \in 1..Len(emitted) : emitted[i].no = pulled[i].no
    /\ Len(pulled) - Len(emitted) <= 1
    /\ (pc \in {"idle", "done"} => Len(emitted) = Len(pulled))

C8_StartupLaunches ==
  (enabled /\ Constructed) =>
    /\ Len(launches) >= 2
    /\ launches[1].kind = "version"
    /\ launches[2].kind = "list"
    /\ \A i \in 3..Len(launches) : launches[i].kind \in {"osd", "ocr"}

\* C8: the version query and the language listing are each launched once,
\* in the constructor and before any detection or recognition; afterwards
\* the installed languages and the script prefix never change.
C8_StartupQueriesOnce ==
  /\ []C8_StartupLaunches
  /\ [][pc # "new" => UNCHANGED <<tesseract_languages, script_prefix>>]_vars

\* An enabled component that has recognised a region and finished.
C8_Witness ==
  /\ enabled /\ pc = "done"
  /\ \E i \in 1..Len(launches) : launches[i].kind = "ocr"
  /\ \E i \in 1..Len(launches) : launches[i].kind = "osd"

\* C9: a startup query that raises ends the constructor with one
\* RuntimeError; no detection or recognition is ever launched, no page is
\* taken, and after a failed version query the languages are not listed.
C9_StartupFailureAborts ==
  /\ (cause # None <=> pc = "failed")
  /\ (pc = "failed" =>
        /\ enabled
        /\ exc = Some("RuntimeError")
        /\ \A i \in 1..Len(launches) : launches[i].kind \in {"version", "list"}
        /\ pulled = <<>> /\ emitted = <<>>
        /\ (cause[1].query = "version"
              => \A i \in 1..Len(launches) : launches[i].kind # "list"))
  /\ ((enabled /\ Constructed) =>
        /\ name # None /\ version # None
        /\ tesseract_languages # None /\ script_prefix # None)

C9_Witness ==
  /\ pc = "failed" /\ cause[1].query = "version"
  /\ Len(launches) = 1

\* The engine launches made for one region.
LaunchesFor(kind, pg, r) ==
  {i \in 1..Len(launches) :
     launches[i].kind = kind /\ launches[i].page = pg /\ launches[i].rect = r}

\* C10: auto mode detects once per region, before the recognition, and
\* passes -l exactly when a tag was detected; an explicit list is passed
\* joined by +, with no detection; an absent or empty selection gives no
\* detection, a recognition without -l, and no error.
C10_LanguageSelection ==
  Constructed =>
    /\ \A i \in 1..Len(launches) :
         launches[i].kind = "ocr" =>
           LET osd == LaunchesFor("osd", launches[i].page, launches[i].rect)
           IN  IF AutoMode
                 THEN Cardinality(osd) = 1 /\ \A j \in osd : j < i
                 ELSE osd = {}
    /\ (AutoMode /\ detected # None /\ Last(launches).kind = "ocr")
         => (InList("-l", Last(launches).cmd) <=> detected[1].lang # None)
    /\ (~AutoMode /\ lang # None /\ lang[1] # <<>>) =>
         \A i \in 1..Len(launches) :
           launches[i].kind = "ocr" =>
             /\ launches[i].cmd[2] = "-l"
             /\ launches[i].cmd[3] = Join(lang[1])
    /\ (lang = None \/ lang = Some(<<>>)) =>
         /\ \A i \in 1..Len(launches) :
              /\ launches[i].kind # "osd"
              /\ launches[i].kind = "ocr" => ~InList("-l", launches[i].cmd)
         /\ exc # Some("TypeError")
         /\ (pc \in {"finally", "cells"} /\ exc = None
               => LaunchesFor("ocr", page[1].no, ri) # {})

\* The calls and launches made for page number n.
TouchedPage(n) ==
  \/ \E i \in 1..Len(rect_calls) : rect_calls[i] = n
  \/ \E i \in 1..Len(render_calls) : render_calls[i].page = n
  \/ \E i \in 1..Len(launches) : launches[i].page = n
  \/ \E i \in 1..Len(merge_calls) : merge_calls[i].page = n

C11_InvalidPageUntouched ==
  enabled =>
    \A i \in 1..Len(pulled) :
      pulled[i].backend = "invalid" =>
        /\ ~TouchedPage(pulled[i].no)
        /\ \A j \in 1..Len(emitted) :
             emitted[j].no = pulled[i].no => emitted[j] = pulled[i]
        /\ (i = Len(pulled) => pc \in {"yield", "idle", "done"})
        /\ (i < Len(pulled) \/ pc \in {"idle", "done"})
             => \E j \in 1..Len(emitted) : emitted[j] = pulled[i]

\* C11: an enabled component emits a page whose backend is invalid with its
\* cells unchanged; for that page the region provider is not queried,
\* nothing is rendered, no temporary file is created, no engine process is
\* launched and the merge collaborator is not called; the page is emitted
\* before the next page is taken.
C11_InvalidPagePassThrough ==
  /\ []C11_InvalidPageUntouched
  /\ [][(enabled /\ page' # None /\ page'[1].backend = "invalid")
          => UNCHANGED <<launches, rect_calls, render_calls, merge_calls, files, nfiles>>]_vars

\* An invalid page emitted, then a valid page processed and emitted.
C11_Witness ==
  /\ enabled /\ Len(emitted) = 2
  /\ pulled[1].backend = "invalid" /\ pulled[2].backend = "valid"
  /\ Len(merge_calls) = 1 /\ merge_calls[1].page = 2

\* C12: a repeat call of either startup method launches no engine
\* process, does not raise and leaves name, version, installed languages
\* and script prefix as they were; the repeat version query returns the
\* cached name and version.
C12_StartupResultsMemoized ==
  returned # None =>
    LET c == returned[1]
    IN  /\ c.launched = <<>>
        /\ c.raised = None
        /\ c.before = fields
        /\ (c.call = "_get_name_and_version"
              => c.value = Some(<<c.before[1][1], c.before[2][1]>>))

\* C13: the version query never makes the constructor fail on an output it
\* cannot split into a name and a version (no output, one token, more than
\* two tokens): the instance is constructed, with the sentinel pair when
\* the version is the sentinel.
C13_UnparsableVersionFallsBack ==
  /\ cause # None
       => ~(cause[1].query = "version" /\ cause[1].error = "ValueError")
  /\ (enabled /\ Constructed)
       => /\ name # None /\ version # None
          /\ (version = Some("XXX") => name = Some("tesseract"))

\* The detection report of the current region has no Script entry.
NoScriptReported ==
  /\ AutoMode /\ detected # None
  /\ \A i \in 1..Len(detected[1].lines) : ~IsScriptLine(detected[1].lines[i])

RecognitionLaunchFailed ==
  /\ exc = Some("OSError") /\ page # None /\ launches # <<>>
  /\ Last(launches).kind = "ocr"
  /\ Last(launches).page = page[1].no /\ Last(launches).rect = ri

C15_FailedLaunchState ==
  RecognitionLaunchFailed =>
    LET n == page[1].no
    IN  /\ pc \in {"finally", "raised"}
        /\ Cardinality(LaunchesFor("ocr", n, ri)) = 1
        /\ Last(render_calls) = [page |-> n, rect |-> ri]
        /\ Len(pulled) = n
        /\ \A i \in 1..Len(merge_calls) : merge_calls[i].page # n
        /\ page[1].cells = pulled[n].cells
        /\ \A i \in 1..Len(emitted) : emitted[i].no # n
        /\ Len(emitted) = n - 1

\* C15: a recognition whose engine cannot be launched ends the run: the
\* engine was launched once for the region, nothing is done for a later
\* region or page, the page is not merged, keeps its cells and is not
\* emitted, and what was emitted before stays emitted.
C15_FailedLaunchPropagates ==
  /\ []C15_FailedLaunchState
  /\ [][pc = "raised" => FALSE]_vars
  /\ [][IsPrefix(emitted, emitted')]_vars

\* The recognition of a region of the second page could not be launched.
C15_Witness ==
  /\ RecognitionLaunchFailed /\ pc = "raised"
  /\ Len(emitted) = 1 /\ Len(pulled) = 2

\* C16: a recognition whose report has no usable row (a header alone, rows
\* with empty or blank text only, or no output at all) raises nothing: the
\* region gets no cell and the loop goes on to the next region.
C16_ZeroUsableRowsNoError ==
  /\ exc # Some("EmptyDataError")
  /\ (report # None /\ SelectSeq(report[1].rows, IsUsableRow) = <<>>)
       => /\ exc = None
          /\ pc \in {"finally", "cells", "loop"}
          /\ CellsOfRegion(report[1].rect) = <<>>
          /\ (pc = "loop" => ri = report[1].rect + 1)

MergeCallsFor(n) == {i \in 1..Len(merge_calls) : merge_calls[i].page = n}

\* C17: with no failing engine call, every page with a valid backend is
\* merged exactly once, after its last region and before it is emitted;
\* the new cells handed over are the cells of the page's own non-zero-area
\* regions, in region order and within a region in report order, and an
\* empty list when there is none.
C17_MergeOncePerPage ==
  (enabled /\ Constructed /\ ~EnvironmentFailed) =>
    /\ pc # "raised"
    /\ \A n \in 1..Len(pulled) :
         pulled[n].backend = "valid" =>
           /\ Cardinality(MergeCallsFor(n)) <= 1
           /\ (n < Len(pulled) \/ pc \in {"yield", "idle", "done"}
                 => Cardinality(MergeCallsFor(n)) = 1)
           /\ (\E j \in 1..Len(emitted) : emitted[j].no = n)
                 => Cardinality(MergeCallsFor(n)) = 1
    /\ \A i \in 1..Len(merge_calls) :
         /\ pulled[merge_calls[i].page].backend = "valid"
         /\ merge_calls[i].old = pulled[merge_calls[i].page].cells
    /\ (page # None /\ page[1].backend = "valid") =>
         /\ Len(all_ocr_cells) = Len(cell_src)
         /\ (pc = "loop" /\ ri = 1 => all_ocr_cells = <<>>)
         /\ \A i \in 1..Len(cell_src) :
              /\ cell_src[i].rect \in 1..Len(ocr_rects)
              /\ Area(ocr_rects[cell_src[i].rect]) # 0
              /\ i > 1 => cell_src[i - 1].rect <= cell_src[i].rect
         /\ (pc \in {"loop", "try", "save", "run", "ocr", "finally", "cells"}
               => MergeCallsFor(page[1].no) = {})
         /\ (pc = "yield"
               => /\ ri > Len(ocr_rects)
                  /\ Last(merge_calls).page = page[1].no
                  /\ Last(merge_calls).new = all_ocr_cells
                  /\ (ocr_rects = <<>> => Last(merge_calls).new = <<>>)
                  /\ \A j \in 1..Len(emitted) : emitted[j].no # page[1].no)

\* The regions of the current page that have cells.
RegionsWithCells == {cell_src[i].rect : i \in 1..Len(cell_src)}

\* C18 as stated: the k-th cell of a region, counting from 0, has id k.
C18_IdIsPositionAmongCells ==
  \A r \in RegionsWithCells :
    LET cells == CellsOfRegion(r)
    IN  \A k \in 1..Len(cells) : cells[k].cell.id = k - 1

\* C18: a cell's id is the position, counting from 0, of its row among all
\* the rows of its region's report, the rows without text included: within
\* a region the ids grow strictly in report order, and the k-th cell has
\* an id of at least k.
C18_IdIsPositionInReport ==
  /\ \A r \in RegionsWithCells :
       LET cells == CellsOfRegion(r)
       IN  \A k \in 1..Len(cells) :
             /\ cells[k].cell.id >= k - 1
             /\ k > 1 => cells[k - 1].cell.id < cells[k].cell.id
  /\ (report # None /\ pc = "loop") =>
       LET cells == CellsOfRegion(report[1].rect)
           rows == report[1].rows
       IN  \A k \in 1..Len(cells) :
             /\ cells[k].cell.id + 1 \in 1..Len(rows)
             /\ rows[cells[k].cell.id + 1] = cells[k].src.row
             /\ Len(SelectSeq(SubSeq(rows, 1, cells[k].cell.id), IsUsableRow)) = k - 1

\* Two regions of one page whose first cells have the same id, which is not 0.
C18_Witness ==
  /\ pc = "loop" /\ report # None
  /\ Cardinality(RegionsWithCells) = 2
  /\ CellsOfRegion(1)[1].cell.id = CellsOfRegion(2)[1].cell.id
  /\ CellsOfRegion(1)[1].cell.id > 0

\* The regions of page n the recognition was launched for, in launch order.
RecognizedRects(n) ==
  LET recs == SelectSeq(launches, LAMBDA l : l.kind = "ocr" /\ l.page = n)
  IN  [i \in 1..Len(recs) |-> recs[i].rect]

\* The regions of page n that have an area, in region order.
NonZeroRects(n) ==
  SelectSeq([i \in 1..Len(pulled[n].rects) |-> i],
            LAMBDA i : Area(pulled[n].rects[i]) # 0)

\* The page's region loop has ended.
PageEnded(n) == n < Len(pulled) \/ pc \in {"yield", "idle", "done", "raised"}

\* C19: with no failing engine call, a page with a valid backend gets one
\* recognition launch for each of its regions that has an area, in region
\* order and none twice; the launch reads the region's own temporary
\* file, which exists at the launch and is removed before the next
\* region's file is created.
C19_OneRecognitionPerRegion ==
  (enabled /\ Constructed /\ ~EnvironmentFailed) =>
    /\ \A n \in 1..Len(pulled) :
         pulled[n].backend = "valid" =>
           LET done == RecognizedRects(n)
           IN  /\ \A i \in 1..Len(done) : i > 1 => done[i - 1] < done[i]
               /\ IsPrefix(done, NonZeroRects(n))
               /\ (PageEnded(n) => done = NonZeroRects(n))
    /\ Cardinality(files) <= 1
    /\ (pc \in {"loop", "try", "cells", "yield", "idle", "done", "raised"} => files = {})
    /\ (pc \in {"save", "run", "ocr"} => files = {fname[1]} /\ fname[1] = FileName(nfiles))
    /\ \A i \in 1..Len(launches) :
         launches[i].kind = "ocr" =>
           /\ \E k \in 1..nfiles : InList(FileName(k), launches[i].cmd)
           /\ \A j \in 1..Len(launches) :
                (launches[j].kind = "ocr" /\ j # i)
                  => \A k \in 1..nfiles :
                       ~(InList(FileName(k), launches[i].cmd)
                         /\ InList(FileName(k), launches[j].cmd))
    /\ (pc = "finally" /\ launches # <<>> /\ Last(launches).kind = "ocr"
          /\ Last(launches).page = page[1].no /\ Last(launches).rect = ri)
         => /\ files = {fname[1]}
            /\ InList(fname[1], Last(launches).cmd)
====
